---- MODULE Spec2Model ----
(***************************************************************************)
(* Model of gsb.parser.Parser: command registration (command,              *)
(* default_kwargs) and line resolution (handle_line) with its hooks.       *)
(* Strings of the program are sequences of one-character strings, so that  *)
(* substitution, splitting and joining are computed and not assumed.       *)
(***************************************************************************)
EXTENDS Integers, Sequences, FiniteSets, TLC

\* ---------------------------------------------------------------- bounds
MaxLen == 2          \* longest line typed by a session
MaxCommands == 2     \* number of registration calls

\* ------------------------------------------------------------ vocabulary
Sessions == {1, 2}
Chars == {"s", " ", "\""}
command_separator == <<" ">>
default_args_regexp == "None"
NoDescription == "No description available."
NoHelp == "No help available."

RECURSIVE StringsUpTo(_)
StringsUpTo(n) ==
    IF n = 0 THEN {<<>>}
    ELSE LET shorter == StringsUpTo(n - 1)
         IN  shorter \cup {Append(w, c) : w \in {x \in shorter : Len(x) = n - 1}, c \in Chars}

Lines == StringsUpTo(MaxLen)

\* Handler functions a program registers: what the function is called, its
\* docstring ("" when it has none) and what a call to it does.
Funcs ==
    { [__name__ |-> <<"s">>, __doc__ |-> "",  does |-> "return"],
      [__name__ |-> <<"s">>, __doc__ |-> "d", does |-> "DontStopException"],
      [__name__ |-> <<"l">>, __doc__ |-> "",  does |-> "Exception"] }

\* Keyword arguments a registration call may supply: each of names,
\* args_regexp and allowed is either left out or given one value.
NamesArgs == { << <<"s">>, <<"l">> >> }
RegexpArgs == { ".+" }
AllowedArgs == { {2} }
Optional(S) == {{}} \cup {{x} : x \in S}
Kwargs(n, r, a) ==
    [k \in ({"names"} \cap {"names" : x \in n})
           \cup ({"args_regexp"} \cap {"args_regexp" : x \in r})
           \cup ({"allowed"} \cap {"allowed" : x \in a}) |->
        CASE k = "names" -> CHOOSE x \in n : TRUE
          [] k = "args_regexp" -> CHOOSE x \in r : TRUE
          [] k = "allowed" -> CHOOSE x \in a : TRUE]
KwargSets ==
    { Kwargs(n, r, a) : n \in Optional(NamesArgs), r \in Optional(RegexpArgs),
                        a \in Optional(AllowedArgs) }
\* Defaults a bulk registration (default_kwargs) may pre-fill.
DefaultKwargSets ==
    { Kwargs({}, {"None"}, {}), Kwargs({}, {}, {Sessions}),
      Kwargs({}, {"None"}, {Sessions}) }

\* Substitution tables a Parser is constructed with: ordered key/value pairs,
\* each value a command name (a token, so without the separator). In the
\* second one the name "s" begins with a key.
SubstitutionTables ==
    { <<>>, << <<"\"", <<"s">> >>, <<"s", <<"l">> >> >> }

VARIABLES
    commands,             \* Parser.commands: name -> list of Command
    command_substitutions,\* Parser.command_substitutions
    registered,           \* number of registration calls made so far
    log,                  \* warnings written to the module logger
    pc,                   \* per session: position of its handle_line call
    typed,                \* per session: the line handle_line was called with
    caller,               \* per session: the Caller of the current call
    idx,                  \* per session: position of the for loop
    commands_matched,     \* per session: the local counter "commands"
    ret,                  \* per session: value returned (<<>> is None)
    trace,                \* per session: calls made out of handle_line
    notified              \* per session: connection.notify calls received

vars == << commands, command_substitutions, registered, log, pc, typed, caller, idx,
           commands_matched, ret, trace, notified >>
regvars == << commands, command_substitutions, registered, log >>

None == <<>>

\* ------------------------------------------------------------ registration
\* dict.pop(key, default) on the keyword arguments.
Pop(kw, key, default) == IF key \in DOMAIN kw THEN kw[key] ELSE default

make_command_names(func) == << func.__name__ >>

make_command_description(func) ==
    IF func.__doc__ # "" THEN func.__doc__ ELSE NoDescription

make_command_help(func) == NoHelp

AllowAll == Sessions

\* The Command built by inner(func) from the keyword arguments.
BuildCommand(func, kw) ==
    [ func        |-> func,
      names       |-> Pop(kw, "names", make_command_names(func)),
      description |-> Pop(kw, "description", make_command_description(func)),
      help        |-> Pop(kw, "help", make_command_help(func)),
      args_regexp |-> Pop(kw, "args_regexp", default_args_regexp),
      allowed     |-> Pop(kw, "allowed", AllowAll) ]

SeqToSet(q) == {q[i] : i \in 1..Len(q)}

get_commands(name) == IF name \in DOMAIN commands THEN commands[name] ELSE <<>>

\* Slip: the Command is stored under its first name only.
AddUnder_first(reg, c, names) ==
    IF names = <<>> THEN reg
    ELSE [n \in DOMAIN reg \cup {Head(names)} |->
            IF n = Head(names)
            THEN Append(IF n \in DOMAIN reg THEN reg[n] ELSE <<>>, c)
            ELSE reg[n]]

\* for name in c.names: l = self.commands.get(name, []); l.append(c);
\* self.commands[name] = l
RECURSIVE AddUnder(_, _, _)
AddUnder(reg, c, names) ==
    IF names = <<>> THEN reg
    ELSE LET name == Head(names)
             l == IF name \in DOMAIN reg THEN reg[name] ELSE <<>>
             reg2 == [n \in DOMAIN reg \cup {name} |->
                        IF n = name THEN Append(l, c) ELSE reg[n]]
         IN  AddUnder(reg2, c, Tail(names))

Idle == \A s \in Sessions : pc[s] = "idle"

\* Parser.command(func, **kwargs)
Command(func, kw) ==
    /\ Idle
    /\ registered < MaxCommands
    /\ registered' = registered + 1
    /\ commands' = AddUnder(commands, BuildCommand(func, kw), BuildCommand(func, kw).names)
    /\ UNCHANGED << command_substitutions, log, pc, typed, caller, idx,
                    commands_matched, ret, trace, notified >>

\* The order in which the pre-filled keyword arguments are visited.
KeyOrder == << "names", "description", "help", "args_regexp", "allowed" >>

\* The loop of f(*a, **kw) in default_kwargs: st.kw is the keyword arguments
\* being filled in, st.log the warnings written on the way.
RECURSIVE FillDefaults(_, _, _)
FillDefaults(kwargs, st, keys) ==
    IF keys = <<>> THEN st
    ELSE LET key == Head(keys)
         IN  IF key \notin DOMAIN kwargs THEN FillDefaults(kwargs, st, Tail(keys))
             ELSE LET warned == IF key \in DOMAIN st.kw
                                THEN Append(st.log, [key |-> key, kwargs |-> kwargs, kw |-> st.kw])
                                ELSE st.log
                      filled == [k \in DOMAIN st.kw \cup {key} |->
                                    IF k = key THEN kwargs[key] ELSE st.kw[k]]
                  IN  FillDefaults(kwargs, [kw |-> filled, log |-> warned], Tail(keys))

\* with parser.default_kwargs(**kwargs) as f: f(func, **kw)
DefaultKwargs(kwargs, func, kw) ==
    LET st == FillDefaults(kwargs, [kw |-> kw, log |-> <<>>], KeyOrder)
        c == BuildCommand(func, st.kw)
    IN  /\ Idle
        /\ registered < MaxCommands
        /\ registered' = registered + 1
        /\ log' = log \o st.log
        /\ commands' = AddUnder(commands, c, c.names)
        /\ UNCHANGED << command_substitutions, pc, typed, caller, idx,
                        commands_matched, ret, trace, notified >>

\* ---------------------------------------------------------- line resolution
\* key in self.command_substitutions / self.command_substitutions[key]
HasKey(table, key) == \E i \in 1..Len(table) : table[i][1] = key
Lookup(table, key) == table[CHOOSE i \in 1..Len(table) : table[i][1] = key][2]

\* Slip: the expansion is applied again to the expanded line.
Substitute_twice(table, line) ==
    LET once(l) == IF l # <<>> /\ HasKey(table, l[1])
                   THEN Lookup(table, l[1]) \o command_separator \o Tail(l)
                   ELSE l
    IN  once(once(line))

\* Lines 171-174: expansion of a leading substitution key.
Substitute(table, line) ==
    IF line # <<>> /\ HasKey(table, line[1])
    THEN Lookup(table, line[1]) \o command_separator \o Tail(line)
    ELSE line

\* Slip: the line is split at its last separator (rsplit).
FirstSep_last(line) ==
    IF \E i \in 1..Len(line) : line[i] = command_separator[1]
    THEN CHOOSE i \in 1..Len(line) :
            /\ line[i] = command_separator[1]
            /\ \A j \in (i + 1)..Len(line) : line[j] # command_separator[1]
    ELSE 0

\* Position of the first separator character of the line, 0 when none.
FirstSep(line) ==
    IF \E i \in 1..Len(line) : line[i] = command_separator[1]
    THEN CHOOSE i \in 1..Len(line) :
            /\ line[i] = command_separator[1]
            /\ \A j \in 1..(i - 1) : line[j] # command_separator[1]
    ELSE 0

\* Parser.split: line.split(separator, 1), padded with an empty string.
split(line) ==
    IF FirstSep(line) = 0 THEN << line, <<>> >>
    ELSE << SubSeq(line, 1, FirstSep(line) - 1),
            SubSeq(line, FirstSep(line) + 1, Len(line)) >>

\* cmd.args_regexp.match(args): ".+" needs at least one character.
Matches(args_regexp, args) ==
    CASE args_regexp = ".+" -> args # <<>>
      [] OTHER -> FALSE

\* Command.ok_for(caller): the allowed predicate applied to the Caller.
ok_for(cmd, c) == c.connection \in cmd.allowed

\* Caller(connection, text=line)
NewCaller(connection, line) ==
    [ connection |-> connection, text |-> line, command |-> <<>>,
      args_str |-> <<>>, args |-> <<>>, kwargs |-> <<>>, exception |-> 0 ]

\* ' or '.join(names)
RECURSIVE Join(_)
Join(names) ==
    IF names = <<>> THEN <<>>
    ELSE IF Len(names) = 1 THEN names[1]
    ELSE names[1] \o <<" ", "o", "r", " ">> \o Join(Tail(names))

\* One connection.notify(format, *args) call.
Msg(fmt, args) == [fmt |-> fmt, args |-> args]

\* Parser.explain_substitution, for the table entries from position i on.
RECURSIVE Hints(_, _, _)
Hints(table, cmd, i) ==
    IF i > Len(table) THEN <<>>
    ELSE (IF table[i][2] \in SeqToSet(cmd.names)
          THEN << Msg("Instead of typing \"%s%s\", you can type %s.",
                      << table[i][2], command_separator, << table[i][1] >> >>) >>
          ELSE <<>>) \o Hints(table, cmd, i + 1)

\* Slip: the help text is sent before the description.
explain_swapped(table, cmd) ==
    << Msg("%s:", << Join(cmd.names) >>) >>
    \o Hints(table, cmd, 1)
    \o << Msg(cmd.help, <<>>), Msg(cmd.description, <<>>) >>

\* Parser.explain: the notifications it sends, in order.
explain(table, cmd) ==
    << Msg("%s:", << Join(cmd.names) >>) >>
    \o Hints(table, cmd, 1)
    \o << Msg(cmd.description, <<>>), Msg(cmd.help, <<>>) >>

\* Parser.huh and Parser.on_error: the notification each sends.
huh == << Msg("I don't understand that.", <<>>) >>
on_error == << Msg("There was an error with your command.", <<>>) >>

\* One call made out of handle_line: op on candidate i, with its outcome.
Ev(op, i, out) == [op |-> op, i |-> i, out |-> out]

Candidates(s) == get_commands(caller[s].command)
Cmd(s) == Candidates(s)[idx[s]]

\* Lines 184-193: the candidate takes the arguments of the line.
Accepts(cmd, args) == cmd.args_regexp = "None" \/ Matches(cmd.args_regexp, args)

\* Slip: the candidates are fetched with setdefault, which stores an empty
\* list under a name that has none.
HandleLine_setdefault(s, line, pre) ==
    LET text == Substitute(command_substitutions, line)
        c == NewCaller(s, text)
        parts == split(text)
    IN  /\ pc[s] = "idle"
        /\ typed' = [typed EXCEPT ![s] = line]
        /\ trace' = [trace EXCEPT ![s] = << Ev("pre_command", 0, IF pre THEN "True" ELSE "False") >>]
        /\ notified' = [notified EXCEPT ![s] = <<>>]
        /\ ret' = [ret EXCEPT ![s] = None]
        /\ idx' = [idx EXCEPT ![s] = 1]
        /\ commands_matched' = [commands_matched EXCEPT ![s] = 0]
        /\ IF pre
           THEN /\ caller' = [caller EXCEPT ![s] =
                                [c EXCEPT !.command = parts[1], !.args_str = parts[2]]]
                /\ pc' = [pc EXCEPT ![s] = "loop"]
                /\ commands' = [n \in DOMAIN commands \cup {parts[1]} |->
                                    IF n \in DOMAIN commands THEN commands[n] ELSE <<>>]
           ELSE /\ caller' = [caller EXCEPT ![s] = c]
                /\ pc' = [pc EXCEPT ![s] = "done"]
                /\ UNCHANGED commands
        /\ UNCHANGED << command_substitutions, registered, log >>

\* Slip: the answer of pre_command is not looked at.
HandleLine_noveto(s, line, pre) ==
    LET text == Substitute(command_substitutions, line)
        c == NewCaller(s, text)
        parts == split(text)
    IN  /\ pc[s] = "idle"
        /\ typed' = [typed EXCEPT ![s] = line]
        /\ trace' = [trace EXCEPT ![s] = << Ev("pre_command", 0, IF pre THEN "True" ELSE "False") >>]
        /\ notified' = [notified EXCEPT ![s] = <<>>]
        /\ ret' = [ret EXCEPT ![s] = None]
        /\ idx' = [idx EXCEPT ![s] = 1]
        /\ commands_matched' = [commands_matched EXCEPT ![s] = 0]
        /\ caller' = [caller EXCEPT ![s] =
                        [c EXCEPT !.command = parts[1], !.args_str = parts[2]]]
        /\ pc' = [pc EXCEPT ![s] = "loop"]
        /\ UNCHANGED regvars

\* Parser.pre_command: the answer of the base class.
pre_command == TRUE

\* Lines 171-181, up to the start of the loop. pre is what pre_command
\* answers for this Caller.
HandleLine(s, line, pre) ==
    LET text == Substitute(command_substitutions, line)
        c == NewCaller(s, text)
        parts == split(text)
    IN  /\ pc[s] = "idle"
        /\ typed' = [typed EXCEPT ![s] = line]
        /\ trace' = [trace EXCEPT ![s] = << Ev("pre_command", 0, IF pre THEN "True" ELSE "False") >>]
        /\ notified' = [notified EXCEPT ![s] = <<>>]
        /\ ret' = [ret EXCEPT ![s] = None]
        /\ idx' = [idx EXCEPT ![s] = 1]
        /\ commands_matched' = [commands_matched EXCEPT ![s] = 0]
        /\ IF pre
           THEN /\ caller' = [caller EXCEPT ![s] =
                                [c EXCEPT !.command = parts[1], !.args_str = parts[2]]]
                /\ pc' = [pc EXCEPT ![s] = "loop"]
           ELSE /\ caller' = [caller EXCEPT ![s] = c]
                /\ pc' = [pc EXCEPT ![s] = "done"]
        /\ UNCHANGED regvars

InLoop(s) == pc[s] = "loop" /\ idx[s] <= Len(Candidates(s))

Record(s, evs) == [trace EXCEPT ![s] = trace[s] \o evs]
\* Slip: the connection to notify is kept on the Parser, where the call
\* that started last (here: of the highest session in a call) overwrites it.
Notify_shared(s, msgs) ==
    LET busy == {t \in Sessions : pc[t] # "idle"}
        t == CHOOSE x \in busy : \A y \in busy : y <= x
    IN  [notified EXCEPT ![t] = notified[t] \o msgs]

Notify(s, msgs) == [notified EXCEPT ![s] = notified[s] \o msgs]

\* Slip: the counter is returned even when it is zero.
ReturnValue_zero(n) == << n >>

\* Lines 212-213: what handle_line returns when the counter is n.
ReturnValue(n) == IF n # 0 THEN << n >> ELSE None

\* The end of handle_line, reached by a break or from the else clause.
Return(s, n) ==
    /\ ret' = [ret EXCEPT ![s] = ReturnValue(n)]
    /\ pc' = [pc EXCEPT ![s] = "done"]

\* Slip: a candidate that is not ok ends the loop instead of being passed over.
Skip_break(s) ==
    /\ InLoop(s)
    /\ ~ok_for(Cmd(s), caller[s])
    /\ trace' = Record(s, << Ev("ok_for", idx[s], "False") >>)
    /\ Return(s, commands_matched[s])
    /\ UNCHANGED << regvars, typed, idx, caller, commands_matched, notified >>

\* Slip: the candidate is counted before it is asked whether it is ok.
Skip_counted(s) ==
    /\ InLoop(s)
    /\ ~ok_for(Cmd(s), caller[s])
    /\ trace' = Record(s, << Ev("ok_for", idx[s], "False") >>)
    /\ commands_matched' = [commands_matched EXCEPT ![s] = commands_matched[s] + 1]
    /\ idx' = [idx EXCEPT ![s] = idx[s] + 1]
    /\ UNCHANGED << regvars, typed, pc, caller, ret, notified >>

\* Line 183: the candidate is not ok for the Caller; the loop moves on.
Skip(s) ==
    /\ InLoop(s)
    /\ ~ok_for(Cmd(s), caller[s])
    /\ trace' = Record(s, << Ev("ok_for", idx[s], "False") >>)
    /\ idx' = [idx EXCEPT ![s] = idx[s] + 1]
    /\ UNCHANGED << regvars, typed, pc, caller, commands_matched, ret, notified >>

\* Slip: after explain the loop goes on to the next candidate (no break).
NoMatch_continue(s) ==
    /\ InLoop(s)
    /\ ok_for(Cmd(s), caller[s])
    /\ ~Accepts(Cmd(s), caller[s].args_str)
    /\ trace' = Record(s, << Ev("ok_for", idx[s], "True"), Ev("match", idx[s], "None"),
                             Ev("explain", idx[s], "") >>)
    /\ notified' = Notify(s, explain(command_substitutions, Cmd(s)))
    /\ idx' = [idx EXCEPT ![s] = idx[s] + 1]
    /\ UNCHANGED << regvars, typed, caller, pc, commands_matched, ret >>

\* Lines 188-191, 212-213: the pattern does not match; explain, break, return.
NoMatch(s) ==
    /\ InLoop(s)
    /\ ok_for(Cmd(s), caller[s])
    /\ ~Accepts(Cmd(s), caller[s].args_str)
    /\ trace' = Record(s, << Ev("ok_for", idx[s], "True"), Ev("match", idx[s], "None"),
                             Ev("explain", idx[s], "") >>)
    /\ notified' = Notify(s, explain(command_substitutions, Cmd(s)))
    /\ Return(s, commands_matched[s])
    /\ UNCHANGED << regvars, typed, caller, idx, commands_matched >>

\* Lines 183-196: the candidate is ok and takes the arguments, so it is
\* counted and its handler, which does `does`, is called.
Invokes(s, does) ==
    /\ InLoop(s)
    /\ ok_for(Cmd(s), caller[s])
    /\ Accepts(Cmd(s), caller[s].args_str)
    /\ Cmd(s).func.does = does

\* The calls made for a candidate whose handler is called.
Called(s, does) ==
    << Ev("ok_for", idx[s], "True") >>
    \o (IF Cmd(s).args_regexp = "None" THEN <<>> ELSE << Ev("match", idx[s], "match") >>)
    \o << Ev("func", idx[s], does) >>

\* Slip: no break after a handler that returned.
HandlerReturns_continue(s) ==
    /\ Invokes(s, "return")
    /\ commands_matched' = [commands_matched EXCEPT ![s] = commands_matched[s] + 1]
    /\ trace' = Record(s, Called(s, "return"))
    /\ idx' = [idx EXCEPT ![s] = idx[s] + 1]
    /\ UNCHANGED << regvars, typed, caller, pc, ret, notified >>

\* Lines 194-197, 212-213: the handler returns; break, return.
HandlerReturns(s) ==
    /\ Invokes(s, "return")
    /\ commands_matched' = [commands_matched EXCEPT ![s] = commands_matched[s] + 1]
    /\ trace' = Record(s, Called(s, "return"))
    /\ Return(s, commands_matched[s] + 1)
    /\ UNCHANGED << regvars, typed, caller, idx, notified >>

\* Slip: DontStopException ends the loop like a normal return.
HandlerDontStop_break(s) ==
    /\ Invokes(s, "DontStopException")
    /\ commands_matched' = [commands_matched EXCEPT ![s] = commands_matched[s] + 1]
    /\ trace' = Record(s, Called(s, "DontStopException"))
    /\ Return(s, commands_matched[s] + 1)
    /\ UNCHANGED << regvars, typed, idx, caller, notified >>

\* Slip: DontStopException is not caught apart and is handled as an error.
HandlerDontStop_error(s) ==
    /\ Invokes(s, "DontStopException")
    /\ commands_matched' = [commands_matched EXCEPT ![s] = commands_matched[s] + 1]
    /\ caller' = [caller EXCEPT ![s].exception = idx[s]]
    /\ trace' = Record(s, Called(s, "DontStopException") \o << Ev("on_error", idx[s], "") >>)
    /\ notified' = Notify(s, on_error)
    /\ idx' = [idx EXCEPT ![s] = idx[s] + 1]
    /\ UNCHANGED << regvars, typed, pc, ret >>

\* Lines 198-199: the handler raises DontStopException; continue.
HandlerDontStop(s) ==
    /\ Invokes(s, "DontStopException")
    /\ commands_matched' = [commands_matched EXCEPT ![s] = commands_matched[s] + 1]
    /\ trace' = Record(s, Called(s, "DontStopException"))
    /\ idx' = [idx EXCEPT ![s] = idx[s] + 1]
    /\ UNCHANGED << regvars, typed, pc, caller, ret, notified >>

\* Slip: after on_error the same candidate is tried again.
HandlerRaises_retry(s) ==
    /\ Invokes(s, "Exception")
    /\ commands_matched' = [commands_matched EXCEPT ![s] = commands_matched[s] + 1]
    /\ caller' = [caller EXCEPT ![s].exception = idx[s]]
    /\ trace' = Record(s, Called(s, "Exception") \o << Ev("on_error", idx[s], "") >>)
    /\ notified' = Notify(s, on_error)
    /\ commands_matched[s] <= MaxCommands
    /\ UNCHANGED << regvars, typed, pc, idx, ret >>

\* Slip: the loop is left after on_error.
HandlerRaises_break(s) ==
    /\ Invokes(s, "Exception")
    /\ commands_matched' = [commands_matched EXCEPT ![s] = commands_matched[s] + 1]
    /\ caller' = [caller EXCEPT ![s].exception = idx[s]]
    /\ trace' = Record(s, Called(s, "Exception") \o << Ev("on_error", idx[s], "") >>)
    /\ notified' = Notify(s, on_error)
    /\ Return(s, commands_matched[s] + 1)
    /\ UNCHANGED << regvars, typed, idx >>

\* Slip: no except clause for Exception, so the error leaves handle_line.
HandlerRaises_escape(s) ==
    /\ Invokes(s, "Exception")
    /\ commands_matched' = [commands_matched EXCEPT ![s] = commands_matched[s] + 1]
    /\ trace' = Record(s, Called(s, "Exception"))
    /\ pc' = [pc EXCEPT ![s] = "raised"]
    /\ UNCHANGED << regvars, typed, idx, caller, ret, notified >>

\* Lines 200-208: the handler raises another Exception; it is stored on the
\* Caller (as the position of the candidate that raised it), on_error is
\* called and the loop goes on.
HandlerRaises(s) ==
    /\ Invokes(s, "Exception")
    /\ commands_matched' = [commands_matched EXCEPT ![s] = commands_matched[s] + 1]
    /\ caller' = [caller EXCEPT ![s].exception = idx[s]]
    /\ trace' = Record(s, Called(s, "Exception") \o << Ev("on_error", idx[s], "") >>)
    /\ notified' = Notify(s, on_error)
    /\ idx' = [idx EXCEPT ![s] = idx[s] + 1]
    /\ UNCHANGED << regvars, typed, pc, ret >>

\* Slip: the else clause calls huh without looking at the counter.
HuhFires_always(n) == TRUE

\* Line 210: the test of the loop's else clause.
HuhFires(n) == n = 0

\* Slip: huh is called only when the name has no candidates at all.
Exhausted_empty(s) ==
    /\ pc[s] = "loop"
    /\ idx[s] > Len(Candidates(s))
    /\ IF Candidates(s) = <<>>
       THEN /\ trace' = Record(s, << Ev("huh", 0, "") >>)
            /\ notified' = Notify(s, huh)
       ELSE UNCHANGED << trace, notified >>
    /\ Return(s, commands_matched[s])
    /\ UNCHANGED << regvars, typed, caller, idx, commands_matched >>

\* Lines 209-213: the loop ran out of candidates without a break; the else
\* clause, then the return.
Exhausted(s) ==
    /\ pc[s] = "loop"
    /\ idx[s] > Len(Candidates(s))
    /\ IF HuhFires(commands_matched[s])
       THEN /\ trace' = Record(s, << Ev("huh", 0, "") >>)
            /\ notified' = Notify(s, huh)
       ELSE UNCHANGED << trace, notified >>
    /\ Return(s, commands_matched[s])
    /\ UNCHANGED << regvars, typed, caller, idx, commands_matched >>

\* The call is over: its Caller and locals are dropped.
Release(s) ==
    /\ pc[s] = "done"
    /\ pc' = [pc EXCEPT ![s] = "idle"]
    /\ typed' = [typed EXCEPT ![s] = <<>>]
    /\ caller' = [caller EXCEPT ![s] = NewCaller(s, <<>>)]
    /\ idx' = [idx EXCEPT ![s] = 1]
    /\ commands_matched' = [commands_matched EXCEPT ![s] = 0]
    /\ ret' = [ret EXCEPT ![s] = None]
    /\ trace' = [trace EXCEPT ![s] = <<>>]
    /\ notified' = [notified EXCEPT ![s] = <<>>]
    /\ UNCHANGED regvars

\* ------------------------------------------------------------ specifications
Init ==
    /\ commands = << >>
    /\ command_substitutions \in SubstitutionTables
    /\ registered = 0
    /\ log = <<>>
    /\ pc = [s \in Sessions |-> "idle"]
    /\ typed = [s \in Sessions |-> <<>>]
    /\ caller = [s \in Sessions |-> NewCaller(s, <<>>)]
    /\ idx = [s \in Sessions |-> 1]
    /\ commands_matched = [s \in Sessions |-> 0]
    /\ ret = [s \in Sessions |-> None]
    /\ trace = [s \in Sessions |-> <<>>]
    /\ notified = [s \in Sessions |-> <<>>]

Register == \E func \in Funcs, kw \in KwargSets : Command(func, kw)

RegisterDefault ==
    \E kwargs \in DefaultKwargSets, func \in Funcs, kw \in KwargSets :
        DefaultKwargs(kwargs, func, kw)

Step(s) ==
    \/ \E line \in Lines : HandleLine(s, line, pre_command)
    \/ Skip(s)
    \/ NoMatch(s)
    \/ HandlerReturns(s)
    \/ HandlerDontStop(s)
    \/ HandlerRaises(s)
    \/ Exhausted(s)
    \/ Release(s)

\* A Parser subclass that overrides pre_command, which then answers either
\* way; its commands are registered with at most one keyword argument.
OverrideKwargSets ==
    { Kwargs({}, {}, {}), Kwargs({}, {".+"}, {}), Kwargs({}, {}, {{2}}) }

RegisterOverride == \E func \in Funcs, kw \in OverrideKwargSets : Command(func, kw)

StepOverride(s) ==
    \/ \E line \in Lines, pre \in BOOLEAN : HandleLine(s, line, pre)
    \/ Skip(s)
    \/ NoMatch(s)
    \/ HandlerReturns(s)
    \/ HandlerDontStop(s)
    \/ HandlerRaises(s)
    \/ Exhausted(s)
    \/ Release(s)

NextOverride == RegisterOverride \/ StepOverride(1)
SpecOverride == Init /\ [][NextOverride]_vars

\* Lines and registrations of the runs with several sessions.
ConcLines == { <<"s">>, <<"s", " ", "s">>, <<"\"">>, <<"\"", "s">> }
ConcKwargSets == { Kwargs({}, {}, {}), Kwargs({}, {".+"}, {{2}}) }

RegisterConc == \E func \in Funcs, kw \in ConcKwargSets : Command(func, kw)

StepConc(s) ==
    \/ \E line \in ConcLines, pre \in BOOLEAN : HandleLine(s, line, pre)
    \/ Skip(s)
    \/ NoMatch(s)
    \/ HandlerReturns(s)
    \/ HandlerDontStop(s)
    \/ HandlerRaises(s)
    \/ Exhausted(s)
    \/ Release(s)

\* One session sends lines to the Parser.
Next == Register \/ Step(1)
Spec == Init /\ [][Next]_vars

\* Registration alone, plain and through default_kwargs.
NextReg == Register \/ RegisterDefault
SpecReg == Init /\ [][NextReg]_vars

\* Several sessions send lines to the same Parser, their calls interleaved
\* step by step; registration happens while no call is under way.
NextConc == RegisterConc \/ \E s \in Sessions : StepConc(s)
SpecConc == Init /\ [][NextConc]_vars

\* ------------------------------------------------------------------ claims
\* Positions of the trace of session s that are calls of op.
Events(s, op) == {k \in 1..Len(trace[s]) : trace[s][k].op = op}
\* The handler calls of the current handle_line call, in order.
Invoked(s) == SelectSeq(trace[s], LAMBDA e : e.op = "func")
Finished(s) == pc[s] = "done"
PreOK(s) == trace[s] # <<>> /\ trace[s][1] = Ev("pre_command", 0, "True")
HuhCalled(s) == Events(s, "huh") # {}
Eligible(s, i) ==
    /\ ok_for(Candidates(s)[i], caller[s])
    /\ Accepts(Candidates(s)[i], caller[s].args_str)

\* C1 as stated: in a finished call that passed the pre-check, huh was
\* called if and only if the matched-count is zero.
C1_Original ==
    \A s \in Sessions :
        (Finished(s) /\ PreOK(s)) => (HuhCalled(s) <=> commands_matched[s] = 0)

\* C1 amended: in a finished call, huh was called if and only if the
\* pre-check passed, the matched-count is zero and no candidate was explained
\* (the loop was not left by the break of a failed pattern match).
C1_CatchAll ==
    \A s \in Sessions :
        Finished(s) =>
            (HuhCalled(s) <=>
                (PreOK(s) /\ commands_matched[s] = 0 /\ Events(s, "explain") = {}))

C1_Witness ==
    \E s \in Sessions :
        /\ Finished(s) /\ PreOK(s)
        /\ commands_matched[s] = 0
        /\ Events(s, "explain") # {}
        /\ ~HuhCalled(s)

\* C2: two commands under the name of the line, both ok for the Caller and
\* taking its arguments, the first handler raising DontStopException and the
\* second returning.
C2_Case(s) ==
    /\ Finished(s) /\ PreOK(s)
    /\ Len(Candidates(s)) = 2
    /\ Eligible(s, 1) /\ Eligible(s, 2)
    /\ Candidates(s)[1].func.does = "DontStopException"
    /\ Candidates(s)[2].func.does = "return"

\* C2 as stated: the first handler is called, then the second, and 1 is
\* returned.
C2_Original ==
    \A s \in Sessions :
        C2_Case(s) =>
            /\ Invoked(s) = << Ev("func", 1, "DontStopException"), Ev("func", 2, "return") >>
            /\ ret[s] = << 1 >>

\* C2 amended: the first handler is called, then the second, and 2 is
\* returned (each called handler is counted).
C2_Continuation ==
    \A s \in Sessions :
        C2_Case(s) =>
            /\ Invoked(s) = << Ev("func", 1, "DontStopException"), Ev("func", 2, "return") >>
            /\ ret[s] = << 2 >>

C2_Witness == \E s \in Sessions : C2_Case(s) /\ ret[s] = << 2 >>

\* The Command appended to the registry by the registration step taken.
Built ==
    LET name == CHOOSE n \in DOMAIN commands' :
                    n \notin DOMAIN commands \/ Len(commands'[n]) > Len(commands[n])
    IN  commands'[name][Len(commands'[name])]

\* C3: when a registration through default_kwargs supplies a value for a
\* pre-filled field (a warning is logged for that key), the Command is built
\* with the value the caller supplied, and the registration is made.
C3_CallerWins ==
    [][\A k \in (Len(log) + 1)..Len(log') :
            /\ registered' = registered + 1
            /\ Built[log'[k].key] = log'[k].kw[log'[k].key]]_vars

\* First candidate that is ok for the Caller, 0 when there is none.
FirstAllowed(s) ==
    IF \E i \in 1..Len(Candidates(s)) : ok_for(Candidates(s)[i], caller[s])
    THEN CHOOSE i \in 1..Len(Candidates(s)) :
            /\ ok_for(Candidates(s)[i], caller[s])
            /\ \A j \in 1..(i - 1) : ~ok_for(Candidates(s)[j], caller[s])
    ELSE 0

\* First candidate that is ok for the Caller and takes its arguments.
FirstEligible(s) ==
    IF \E i \in 1..Len(Candidates(s)) : Eligible(s, i)
    THEN CHOOSE i \in 1..Len(Candidates(s)) :
            Eligible(s, i) /\ \A j \in 1..(i - 1) : ~Eligible(s, j)
    ELSE 0

\* C4 as stated: in a finished call the first handler executed is that of
\* the first-registered command that is allowed and whose pattern matches (or
\* that has no pattern), whatever stands before it in the list.
C4_Original ==
    \A s \in Sessions :
        (Finished(s) /\ PreOK(s) /\ FirstEligible(s) # 0) =>
            (Invoked(s) # <<>> /\ Invoked(s)[1].i = FirstEligible(s))

\* C4 amended: in a finished call with an allowed candidate, if the first
\* allowed candidate's pattern matches (or it has none) its handler is the
\* first one executed, candidates that are not allowed before it
\* notwithstanding; if its pattern does not match, no handler is executed.
C4_Priority ==
    \A s \in Sessions :
        (Finished(s) /\ PreOK(s) /\ FirstAllowed(s) # 0) =>
            IF Eligible(s, FirstAllowed(s))
            THEN Invoked(s) # <<>> /\ Invoked(s)[1].i = FirstAllowed(s)
            ELSE Invoked(s) = <<>>

C4_Witness ==
    \E s \in Sessions :
        /\ Finished(s) /\ PreOK(s)
        /\ FirstAllowed(s) = 2
        /\ Invoked(s) # <<>> /\ Invoked(s)[1].i = 2

\* C5: once an allowed candidate's pattern has failed to match, explain is
\* called for that candidate, exactly once in the call, nothing is done
\* after it (no later ok_for, match, handler, explain or on_error), huh is not
\* called and the loop is left.
C5_NoMatchStops ==
    \A s \in Sessions : \A k \in 1..Len(trace[s]) :
        (trace[s][k].op = "match" /\ trace[s][k].out = "None") =>
            /\ Len(trace[s]) = k + 1
            /\ trace[s][k + 1] = Ev("explain", trace[s][k].i, "")
            /\ Cardinality(Events(s, "explain")) = 1
            /\ ~HuhCalled(s)
            /\ pc[s] = "done"

C5_Witness ==
    \E s \in Sessions :
        /\ Finished(s)
        /\ Events(s, "explain") # {}
        /\ trace[s][Len(trace[s])].i = 1
        /\ Len(Candidates(s)) = 2
        /\ Eligible(s, 2)

\* C6: a handler that returned is the last thing a call does: at most one
\* handler returns, and no ok_for, match, handler, explain, on_error or huh
\* follows it.
C6_ReturnStops ==
    \A s \in Sessions : \A k \in 1..Len(trace[s]) :
        (trace[s][k].op = "func" /\ trace[s][k].out = "return") =>
            /\ k = Len(trace[s])
            /\ pc[s] = "done"

C6_Witness ==
    \E s \in Sessions :
        /\ Finished(s)
        /\ Invoked(s) = << Ev("func", 1, "return") >>
        /\ Len(Candidates(s)) = 2
        /\ Eligible(s, 2)

\* The calls session s makes in the step taken.
NewEvents(s) == SubSeq(trace'[s], Len(trace[s]) + 1, Len(trace'[s]))
\* In the step taken, a handler of session s ended with outcome out.
HandlerEnded(s, out) ==
    /\ pc[s] = "loop"
    /\ Len(trace'[s]) > Len(trace[s])
    /\ \E k \in 1..Len(NewEvents(s)) : NewEvents(s)[k] = Ev("func", idx[s], out)

\* C7: a step in which a handler raises DontStopException calls no error
\* hook, leaves caller.exception alone, notifies nothing, and leaves the loop
\* running at the next candidate.
C7_DontStop ==
    [][\A s \in Sessions :
        HandlerEnded(s, "DontStopException") =>
            /\ \A k \in 1..Len(NewEvents(s)) : NewEvents(s)[k].op # "on_error"
            /\ caller'[s].exception = caller[s].exception
            /\ notified'[s] = notified[s]
            /\ pc'[s] = "loop"
            /\ idx'[s] = idx[s] + 1]_vars

C7_Witness ==
    \E s \in Sessions :
        /\ Len(Invoked(s)) = 2
        /\ Invoked(s)[1] = Ev("func", 1, "DontStopException")
        /\ Invoked(s)[2].i = 2
        /\ notified[s] = <<>>
        /\ caller[s].exception = 0

\* C8: a step in which a handler raises another Exception stores that error
\* on caller.exception, calls on_error once, right after the handler, and
\* leaves the loop running at the next candidate; so in every call there are
\* as many on_error calls as faulting handlers.
C8_FaultIsolation ==
    /\ [](\A s \in Sessions :
            Cardinality(Events(s, "on_error"))
                = Len(SelectSeq(Invoked(s), LAMBDA e : e.out = "Exception")))
    /\ [][\A s \in Sessions :
            HandlerEnded(s, "Exception") =>
                /\ caller'[s].exception = idx[s]
                /\ NewEvents(s)[Len(NewEvents(s))] = Ev("on_error", idx[s], "")
                /\ Len(SelectSeq(NewEvents(s), LAMBDA e : e.op = "on_error")) = 1
                /\ notified'[s] = notified[s] \o on_error
                /\ pc'[s] = "loop"
                /\ idx'[s] = idx[s] + 1]_vars

C8_Witness ==
    \E s \in Sessions :
        /\ Finished(s)
        /\ Invoked(s) = << Ev("func", 1, "Exception"), Ev("func", 2, "Exception") >>
        /\ Cardinality(Events(s, "on_error")) = 2
        /\ caller[s].exception = 2

\* C9: the counter is the number of handlers called so far in the call,
\* whatever they did, and a finished call returned
\* the counter when it is not zero and None when it is.
C9_ReturnsCount ==
    \A s \in Sessions :
        /\ commands_matched[s] = Len(Invoked(s))
        /\ Finished(s) =>
              ret[s] = IF Len(Invoked(s)) # 0 THEN << Len(Invoked(s)) >> ELSE None

C9_Witness ==
    \E s \in Sessions :
        /\ Finished(s)
        /\ Invoked(s) = << Ev("func", 1, "DontStopException"), Ev("func", 2, "Exception") >>
        /\ ret[s] = << 2 >>

\* C10: no error leaves handle_line: a call is always at one of its own
\* steps, a call under way can always take its next step, and a finished
\* call returned None or a positive count.
C10_NoEscape ==
    \A s \in Sessions :
        /\ pc[s] \in {"idle", "loop", "done"}
        /\ pc[s] = "loop" => ENABLED Step(s)
        /\ Finished(s) => (ret[s] = None \/ \E n \in 1..MaxCommands : ret[s] = << n >>)

C10_Witness ==
    \E s \in Sessions :
        /\ Finished(s)
        /\ Events(s, "func") # {}
        /\ \A k \in Events(s, "func") : trace[s][k].out = "Exception"
        /\ ret[s] # None

\* The call of session s got past the pre-check and tokenized its line.
Tokenized(s) == pc[s] \in {"loop", "done"} /\ PreOK(s)
Vetoed(s) == trace[s] # <<>> /\ trace[s][1] = Ev("pre_command", 0, "False")
HasSep(line) == \E i \in 1..Len(line) : line[i] = command_separator[1]

\* C11: a call whose pre_command answered false is over at once: nothing
\* was tokenized onto the Caller, no ok_for, pattern, handler, explain,
\* on_error or huh was called, nothing was notified, and None is returned.
C11_Veto ==
    \A s \in Sessions :
        Vetoed(s) =>
            /\ pc[s] = "done"
            /\ Len(trace[s]) = 1
            /\ caller[s].command = <<>> /\ caller[s].args_str = <<>>
            /\ caller[s].exception = 0
            /\ commands_matched[s] = 0
            /\ notified[s] = <<>>
            /\ ret[s] = None

C11_Witness ==
    \E s \in Sessions :
        /\ Vetoed(s)
        /\ LET cands == get_commands(split(caller[s].text)[1])
           IN  /\ cands # <<>>
               /\ ok_for(cands[1], caller[s])
               /\ Accepts(cands[1], split(caller[s].text)[2])

\* C12: when the typed line begins with a key of the substitution table, the
\* token resolved is the name the key is mapped to and the remainder is the
\* typed line after its first character, also when that name itself begins
\* with a key (one expansion only); otherwise the typed line is used as it is.
C12_Substitution ==
    \A s \in Sessions :
        Tokenized(s) =>
            IF typed[s] # <<>> /\ HasKey(command_substitutions, typed[s][1])
            THEN /\ caller[s].command = Lookup(command_substitutions, typed[s][1])
                 /\ caller[s].args_str = Tail(typed[s])
            ELSE caller[s].text = typed[s]

C12_Witness ==
    \E s \in Sessions :
        /\ Tokenized(s)
        /\ Len(typed[s]) = 2 /\ typed[s][1] = "\""
        /\ HasKey(command_substitutions, "\"")
        /\ HasKey(command_substitutions, caller[s].command[1])
        /\ caller[s].command = <<"s">>
        /\ caller[s].args_str = Tail(typed[s])

\* C17: the line of the Caller is split once, at its first separator: with a
\* separator in it, token, separator and remainder make up the line and the
\* token has no separator; without one, the token is the line and the
\* remainder is empty.
C17_Split ==
    \A s \in Sessions :
        Tokenized(s) =>
            IF HasSep(caller[s].text)
            THEN /\ caller[s].command \o command_separator \o caller[s].args_str
                        = caller[s].text
                 /\ ~HasSep(caller[s].command)
            ELSE /\ caller[s].command = caller[s].text
                 /\ caller[s].args_str = <<>>

C17_Witness ==
    \E s \in Sessions :
        /\ Tokenized(s)
        /\ caller[s].command # <<>>
        /\ HasSep(caller[s].args_str)

\* The list stored under name n in registry reg, empty when n is no key.
Under(reg, n) == IF n \in DOMAIN reg THEN reg[n] ELSE <<>>

\* C13: a registration call appends one Command, the same one, once to the
\* list of every name of that Command (its names being distinct), creating
\* the list when there is none, and leaves every other list as it was: no
\* key is lost and no stored Command is removed, replaced or moved.
C13_Registry ==
    [][registered' # registered =>
        \E n0 \in DOMAIN commands' :
            LET c == commands'[n0][Len(commands'[n0])]
            IN  /\ \A n \in SeqToSet(c.names) :
                        /\ n \in DOMAIN commands'
                        /\ commands'[n] = Append(Under(commands, n), c)
                /\ \A n \in DOMAIN commands' \ SeqToSet(c.names) :
                        n \in DOMAIN commands /\ commands'[n] = commands[n]
                /\ DOMAIN commands \subseteq DOMAIN commands']_vars

C13_Witness ==
    /\ registered = 2
    /\ DOMAIN commands = { <<"s">>, <<"l">> }
    /\ Len(commands[<<"s">>]) = 2
    /\ Len(commands[<<"l">>]) = 1
    /\ commands[<<"l">>][1] = commands[<<"s">>][2]
    /\ commands[<<"s">>][1].names = << <<"s">> >>

\* A step of a handle_line call of session s.
CallStep(s) == pc'[s] # pc[s] \/ idx'[s] # idx[s]

\* C14: no step of a handle_line call changes the registry (its keys and
\* its lists) or the substitution table, also when the token has no entry.
C14_ReadOnly ==
    [][(\E s \in Sessions : CallStep(s)) =>
            (commands' = commands /\ command_substitutions' = command_substitutions)]_vars

C14_Witness ==
    \E s \in Sessions :
        /\ Finished(s) /\ PreOK(s)
        /\ caller[s].command \notin DOMAIN commands
        /\ caller[s].command # <<>>
        /\ commands # << >>

\* C15: a candidate that is not ok for the Caller has no pattern run, no
\* handler called and no explain, and the step that passes over it changes
\* neither the counter nor the notifications and leaves the loop running at
\* the next candidate.
C15_Skip ==
    /\ [](\A s \in Sessions : \A k \in 1..Len(trace[s]) :
            (trace[s][k].op = "ok_for" /\ trace[s][k].out = "False") =>
                \A j \in 1..Len(trace[s]) :
                    trace[s][j].i = trace[s][k].i => j = k)
    /\ [][\A s \in Sessions :
            (InLoop(s) /\ ~ok_for(Cmd(s), caller[s]) /\ CallStep(s)) =>
                /\ NewEvents(s) = << Ev("ok_for", idx[s], "False") >>
                /\ commands_matched'[s] = commands_matched[s]
                /\ notified'[s] = notified[s]
                /\ pc'[s] = "loop"
                /\ idx'[s] = idx[s] + 1]_vars

C15_Witness ==
    \E s \in Sessions :
        /\ Finished(s)
        /\ Len(Candidates(s)) = 2
        /\ trace[s][2] = Ev("ok_for", 1, "False")
        /\ ~Accepts(Candidates(s)[1], caller[s].args_str)
        /\ Invoked(s) = << Ev("func", 2, "return") >>

\* The entries of the substitution table whose target is a name of cmd.
HintsFor(cmd) ==
    SelectSeq(command_substitutions, LAMBDA e : \E i \in 1..Len(cmd.names) : cmd.names[i] = e[2])

\* C18: in a call that explained a candidate, what explain notified (all
\* that was notified after the on_error messages of earlier candidates) is:
\* the joined names, then one hint for each substitution whose target is a
\* name of the command, in the order of the table, and none for the other
\* substitutions, then the description, then the help text.
C18_Explain ==
    \A s \in Sessions : \A k \in Events(s, "explain") :
        LET cmd == Candidates(s)[trace[s][k].i]
            before == Cardinality(Events(s, "on_error"))
            sent == SubSeq(notified[s], before + 1, Len(notified[s]))
            hints == HintsFor(cmd)
        IN  /\ Len(sent) = Len(hints) + 3
            /\ sent[1].fmt = "%s:"
            /\ sent[1].args = << Join(cmd.names) >>
            /\ \A j \in 1..Len(hints) :
                    /\ sent[1 + j].fmt = "Instead of typing \"%s%s\", you can type %s."
                    /\ sent[1 + j].args = << hints[j][2], command_separator, << hints[j][1] >> >>
            /\ sent[Len(sent) - 1] = Msg(cmd.description, <<>>)
            /\ sent[Len(sent)] = Msg(cmd.help, <<>>)

C18_Witness ==
    \E s \in Sessions : \E k \in Events(s, "explain") :
        /\ Len(command_substitutions) = 2
        /\ Candidates(s)[trace[s][k].i].names = << <<"s">> >>
        /\ Candidates(s)[trace[s][k].i].description = "d"
        /\ Len(notified[s]) = 4

\* C19: huh is called at most once in a call, never in a call that called
\* a handler, explained a candidate or failed the pre-check, and a finished
\* call has called it exactly when the pre-check passed and no candidate
\* under the token is ok for the Caller (no candidate at all included).
C19_HuhOnlyUnknown ==
    \A s \in Sessions :
        /\ Cardinality(Events(s, "huh")) <= 1
        /\ HuhCalled(s) => (Invoked(s) = <<>> /\ Events(s, "explain") = {} /\ PreOK(s))
        /\ Finished(s) => (HuhCalled(s) <=> (PreOK(s) /\ FirstAllowed(s) = 0))

C19_Witness ==
    \E s \in Sessions :
        /\ Finished(s) /\ HuhCalled(s)
        /\ Len(Candidates(s)) = 2
        /\ notified[s] = huh

\* The candidates asked whether they are ok, in the order they were asked.
Attempted(s) == SelectSeq(trace[s], LAMBDA e : e.op = "ok_for")

\* C20: the candidates are attempted once each, in registration order (the
\* k-th attempt is on the k-th candidate), so there are never more handler
\* calls, and the counter is never more, than candidates under the token;
\* and every step of the loop ends the call or moves to the next candidate.
C20_Bounded ==
    /\ [](\A s \in Sessions :
            /\ \A k \in 1..Len(Attempted(s)) : Attempted(s)[k].i = k
            /\ Len(Attempted(s)) <= Len(Candidates(s))
            /\ Len(Invoked(s)) <= Len(Candidates(s))
            /\ commands_matched[s] <= Len(Candidates(s))
            /\ idx[s] <= Len(Candidates(s)) + 1)
    /\ [][\A s \in Sessions :
            (pc[s] = "loop" /\ trace'[s] # trace[s]) =>
                (pc'[s] = "done" \/ idx'[s] = idx[s] + 1)]_vars

C20_Witness ==
    \E s \in Sessions :
        /\ Finished(s)
        /\ Len(Candidates(s)) = 2
        /\ Len(Invoked(s)) = 2
        /\ ret[s] = << 2 >>
        /\ Invoked(s)[2].out = "Exception"

\* What a handle_line call of session s on `line` does when it runs alone
\* from candidate i on, having done `st` so far: the calls it makes, what it
\* notifies and what it returns.
RECURSIVE AloneFrom(_, _, _, _)
AloneFrom(c, cands, i, st) ==
    IF i > Len(cands)
    THEN [ trace    |-> st.trace \o (IF st.n = 0 THEN << Ev("huh", 0, "") >> ELSE <<>>),
           notified |-> st.notified \o (IF st.n = 0 THEN huh ELSE <<>>),
           ret      |-> IF st.n = 0 THEN None ELSE << st.n >> ]
    ELSE IF c.connection \notin cands[i].allowed
    THEN AloneFrom(c, cands, i + 1,
            [st EXCEPT !.trace = st.trace \o << Ev("ok_for", i, "False") >>])
    ELSE IF cands[i].args_regexp = ".+" /\ c.args_str = <<>>
    THEN [ trace    |-> st.trace \o << Ev("ok_for", i, "True"), Ev("match", i, "None"),
                                       Ev("explain", i, "") >>,
           notified |-> st.notified \o explain(command_substitutions, cands[i]),
           ret      |-> IF st.n = 0 THEN None ELSE << st.n >> ]
    ELSE LET does == cands[i].func.does
             calls == << Ev("ok_for", i, "True") >>
                      \o (IF cands[i].args_regexp = ".+"
                          THEN << Ev("match", i, "match") >> ELSE <<>>)
                      \o << Ev("func", i, does) >>
         IN  CASE does = "return" ->
                    [ trace |-> st.trace \o calls, notified |-> st.notified,
                      ret |-> << st.n + 1 >> ]
               [] does = "DontStopException" ->
                    AloneFrom(c, cands, i + 1,
                        [st EXCEPT !.trace = st.trace \o calls, !.n = st.n + 1])
               [] does = "Exception" ->
                    AloneFrom(c, cands, i + 1,
                        [ trace |-> st.trace \o calls \o << Ev("on_error", i, "") >>,
                          notified |-> st.notified \o on_error,
                          n |-> st.n + 1 ])

Alone(s, line, pre) ==
    LET text == Substitute(command_substitutions, line)
        parts == split(text)
        c == [NewCaller(s, text) EXCEPT !.command = parts[1], !.args_str = parts[2]]
        start == << Ev("pre_command", 0, IF pre THEN "True" ELSE "False") >>
    IN  IF pre
        THEN AloneFrom(c, get_commands(parts[1]), 1,
                       [trace |-> start, notified |-> <<>>, n |-> 0])
        ELSE [trace |-> start, notified |-> <<>>, ret |-> None]

IsPrefix(p, q) == Len(p) <= Len(q) /\ SubSeq(q, 1, Len(p)) = p

\* C16: with the calls of several sessions interleaved, each call has its
\* own Caller, on its own connection and line, and at every moment has made
\* the calls and sent its session the notifications that the same call makes
\* when it runs alone, up to where it has got; a finished call has made all
\* of them, no others, and returned the same value.
C16_Interleaved ==
    \A s \in Sessions :
        pc[s] # "idle" =>
            LET alone == Alone(s, typed[s], PreOK(s))
            IN  /\ caller[s].connection = s
                /\ caller[s].text = Substitute(command_substitutions, typed[s])
                /\ IF Finished(s)
                   THEN /\ trace[s] = alone.trace
                        /\ notified[s] = alone.notified
                        /\ ret[s] = alone.ret
                   ELSE /\ IsPrefix(trace[s], alone.trace)
                        /\ IsPrefix(notified[s], alone.notified)

C16_Witness ==
    /\ pc[1] = "loop" /\ pc[2] = "loop"
    /\ idx[1] = 2 /\ idx[2] = 2
    /\ typed[1] = typed[2]
    /\ notified[1] = <<>>
    /\ notified[2] = on_error
    /\ Len(Candidates(1)) = 2
====
